---- MODULE Spec2Model ----
(***************************************************************************)
(* A model of bcrypt.py (OpenBSD Blowfish password hashing, Python 2).     *)
(*                                                                         *)
(* Text is a sequence of one-character strings, binary data a sequence of  *)
(* bytes (0..255).  The module's functions are operators computed the way  *)
(* the source computes them.                                               *)
(*                                                                         *)
(* The source is Python 2 (xrange, str-based base64, integer "/"), and is  *)
(* modelled with Python 2.7 semantics.                                     *)
(*                                                                         *)
(* Two specifications.                                                     *)
(*                                                                         *)
(* Spec is the module as a program: it starts unloaded, and importing it   *)
(* raises before any function is defined, ImportError at line 27 where     *)
(* lib.eksblowfish is absent and otherwise TypeError at line 33 (str /     *)
(* int).  Nothing else happens in it.                                      *)
(*                                                                         *)
(* FunctionSpec is about the functions as functions of their arguments:    *)
(* its initial states draw the arguments of one function from bounded      *)
(* sets, and its actions apply the function as its def statement defines   *)
(* it, a global name standing for what the file's text assigns to it       *)
(* (lines 30-32 and 34, and the five defs).  Three names the functions use *)
(* are assigned by no statement of the file: EksBlowfish (line 27 imports  *)
(* the name Blowfish), struct (never imported) and BCRYPT_BLOCKS (line 33  *)
(* raises).  A use of one of them raises NameError; the first is at line   *)
(* 82, so hashpw ends there for every salt that passes the checks of lines *)
(* 59-78, and lines 84-100 are executed for no argument.                   *)
(***************************************************************************)
EXTENDS Integers, Sequences, FiniteSets, TLC

(***************************************************************************)
(* Bounds of the model.                                                    *)
(***************************************************************************)
\* _b64_encode / _b64_decode are applied to every byte sequence over
\* ByteSamples of length 0..MaxDataLen.
MaxDataLen == 4
\* hashpw is called with salt segments of every length 0..MaxSaltChars.
MaxSaltChars == 25
\* gensalt is called with every log_rounds in -LogArgSpan .. 31+LogArgSpan.
LogArgSpan == 3
\* _b64_encode / _b64_decode are also applied to two byte sequences of each
\* length 0..MaxLongLen.
MaxLongLen == 64

(***************************************************************************)
(* Characters.                                                             *)
(***************************************************************************)
\* The printable ASCII characters, code 32 first.  The double quote, the
\* backslash and the backquote, which no input here holds, are written dq,
\* bs and bt.
Ascii ==
  << " ", "!", "dq", "#", "$", "%", "&", "'", "(", ")", "*", "+", ",", "-",
     ".", "/", "0", "1", "2", "3", "4", "5", "6", "7", "8", "9", ":", ";",
     "<", "=", ">", "?", "@", "A", "B", "C", "D", "E", "F", "G", "H", "I",
     "J", "K", "L", "M", "N", "O", "P", "Q", "R", "S", "T", "U", "V", "W",
     "X", "Y", "Z", "[", "bs", "]", "^", "_", "bt", "a", "b", "c", "d", "e",
     "f", "g", "h", "i", "j", "k", "l", "m", "n", "o", "p", "q", "r", "s",
     "t", "u", "v", "w", "x", "y", "z", "{", "|", "}", "~" >>

\* ord(c) of a printable character.
Ord(c) == 31 + (CHOOSE j \in 1..Len(Ascii) : Ascii[j] = c)

Digits == << "0", "1", "2", "3", "4", "5", "6", "7", "8", "9" >>

IsDigit(c) == \E j \in 1..10 : Digits[j] = c

DigitValue(c) == (CHOOSE j \in 1..10 : Digits[j] = c) - 1

\* The alphabet of the standard library's base64 (RFC 3548), value 0 first.
Std64Alphabet ==
  << "A", "B", "C", "D", "E", "F", "G", "H", "I", "J", "K", "L", "M", "N",
     "O", "P", "Q", "R", "S", "T", "U", "V", "W", "X", "Y", "Z", "a", "b",
     "c", "d", "e", "f", "g", "h", "i", "j", "k", "l", "m", "n", "o", "p",
     "q", "r", "s", "t", "u", "v", "w", "x", "y", "z", "0", "1", "2", "3",
     "4", "5", "6", "7", "8", "9", "+", "/" >>

\* The two alternative characters the module passes to base64: './'.
AltChars == << ".", "/" >>

(***************************************************************************)
(* The standard library calls of the codec, as Python 2.7 computes them.   *)
(***************************************************************************)
\* str.translate(maketrans(frm, to)): each character of frm becomes the
\* character of to at the same place.
Translate(s, frm, to) ==
  [j \in 1..Len(s) |->
     IF \E m \in 1..Len(frm) : frm[m] = s[j]
     THEN to[CHOOSE m \in 1..Len(frm) : frm[m] = s[j]]
     ELSE s[j]]

\* binascii.b2a_base64 without its newline: 3 bytes to 4 characters, the
\* last group padded with '='.
RECURSIVE B2aBase64(_)
B2aBase64(d) ==
  IF Len(d) = 0 THEN << >>
  ELSE IF Len(d) = 1 THEN
    << Std64Alphabet[(d[1] \div 4) + 1],
       Std64Alphabet[((d[1] % 4) * 16) + 1], "=", "=" >>
  ELSE IF Len(d) = 2 THEN
    << Std64Alphabet[(d[1] \div 4) + 1],
       Std64Alphabet[((d[1] % 4) * 16 + (d[2] \div 16)) + 1],
       Std64Alphabet[((d[2] % 16) * 4) + 1], "=" >>
  ELSE
    << Std64Alphabet[(d[1] \div 4) + 1],
       Std64Alphabet[((d[1] % 4) * 16 + (d[2] \div 16)) + 1],
       Std64Alphabet[((d[2] % 16) * 4 + (d[3] \div 64)) + 1],
       Std64Alphabet[(d[3] % 64) + 1] >> \o B2aBase64(SubSeq(d, 4, Len(d)))

\* str.rstrip(c).
RECURSIVE RStrip(_, _)
RStrip(s, c) ==
  IF Len(s) > 0 /\ s[Len(s)] = c THEN RStrip(SubSeq(s, 1, Len(s) - 1), c)
  ELSE s

\* A character binascii.a2b_base64 takes as base64: the alphabet, or '='.
IsB64Char(c) == c = "=" \/ \E j \in 1..64 : Std64Alphabet[j] = c

B64Value(c) == (CHOOSE j \in 1..64 : Std64Alphabet[j] = c) - 1

\* binascii_find_valid(s + pos, ..., 1): the second base64 character at or
\* after pos, "" when there is none.
FindValid(s, pos) ==
  LET valid == { j \in pos..Len(s) : IsB64Char(s[j]) }
      first == CHOOSE j \in valid : \A m \in valid : j <= m
      rest  == valid \ {first}
  IN IF valid = {} \/ rest = {} THEN ""
     ELSE s[CHOOSE j \in rest : \A m \in rest : j <= m]

\* binascii.a2b_base64, a character at a time: characters outside the
\* alphabet are skipped, a pad sequence ends the input, and bits left over
\* at the end are "Incorrect padding".
RECURSIVE A2bLoop(_, _, _, _, _, _)
A2bLoop(s, pos, quad_pos, leftchar, leftbits, out) ==
  IF pos > Len(s) THEN [ok |-> leftbits = 0, val |-> out]
  ELSE IF s[pos] = "=" THEN
    IF quad_pos < 2 \/ (quad_pos = 2 /\ FindValid(s, pos) # "=")
    THEN A2bLoop(s, pos + 1, quad_pos, leftchar, leftbits, out)
    ELSE [ok |-> TRUE, val |-> out]
  ELSE IF ~IsB64Char(s[pos])
    THEN A2bLoop(s, pos + 1, quad_pos, leftchar, leftbits, out)
  ELSE
    LET ch   == leftchar * 64 + B64Value(s[pos])
        bits == leftbits + 6
    IN IF bits >= 8
       THEN A2bLoop(s, pos + 1, (quad_pos + 1) % 4, ch % (2 ^ (bits - 8)),
                    bits - 8, Append(out, (ch \div (2 ^ (bits - 8))) % 256))
       ELSE A2bLoop(s, pos + 1, (quad_pos + 1) % 4, ch, bits, out)

A2bBase64(s) == A2bLoop(s, 1, 0, 0, 0, << >>)

\* isspace(c) of C: the characters int() skips.  The vertical tab, which no
\* input here holds, is written vt.
IsSpace(c) == c \in { " ", "\t", "\n", "\r", "\f", "vt" }

RECURSIVE LStripSpace(_)
LStripSpace(s) ==
  IF Len(s) > 0 /\ IsSpace(s[1]) THEN LStripSpace(Tail(s)) ELSE s

\* The number of leading decimal digits of s.
RECURSIVE DigitRun(_)
DigitRun(s) ==
  IF Len(s) > 0 /\ IsDigit(s[1]) THEN 1 + DigitRun(Tail(s)) ELSE 0

RECURSIVE DecimalValue(_)
DecimalValue(s) ==
  IF Len(s) = 0 THEN 0
  ELSE DecimalValue(SubSeq(s, 1, Len(s) - 1)) * 10 + DigitValue(s[Len(s)])

\* int(s) of a str, as PyInt_FromString and PyOS_strtol of Python 2.7 read
\* it in base 10: white space, an optional sign, white space again, one or
\* more decimal digits, white space, and nothing else.  ok is FALSE where
\* int raises ValueError.
PyInt(s) ==
  LET t      == LStripSpace(s)
      signed == Len(t) > 0 /\ t[1] \in {"+", "-"}
      sign   == IF signed /\ t[1] = "-" THEN -1 ELSE 1
      body   == LStripSpace(IF signed THEN Tail(t) ELSE t)
      run    == DigitRun(body)
      rest   == LStripSpace(SubSeq(body, run + 1, Len(body)))
  IN IF run > 0 /\ Len(rest) = 0
     THEN [ok |-> TRUE, val |-> sign * DecimalValue(SubSeq(body, 1, run))]
     ELSE [ok |-> FALSE, val |-> 0]

\* str.split(sep): the pieces between the separators.
RECURSIVE SplitFrom(_, _, _)
SplitFrom(s, sep, cur) ==
  IF Len(s) = 0 THEN << cur >>
  ELSE IF s[1] = sep THEN << cur >> \o SplitFrom(Tail(s), sep, << >>)
  ELSE SplitFrom(Tail(s), sep, Append(cur, s[1]))

Split(s, sep) == SplitFrom(s, sep, << >>)

\* '{:02d}'.format(n): decimal, zero-padded to two characters, the sign
\* counted in the width.
RECURSIVE DecimalDigits(_)
DecimalDigits(n) ==
  IF n < 10 THEN << Digits[n + 1] >>
  ELSE Append(DecimalDigits(n \div 10), Digits[(n % 10) + 1])

Format02d(n) ==
  IF n < 0 THEN << "-" >> \o DecimalDigits(-n)
  ELSE IF n < 10 THEN << "0" >> \o DecimalDigits(n)
  ELSE DecimalDigits(n)

(***************************************************************************)
(* The codec of the module.                                                *)
(***************************************************************************)
\* _b64_encode: base64.b64encode(data, './').rstrip('=').
_b64_encode(data) ==
  RStrip(Translate(B2aBase64(data), << "+", "/" >>, AltChars), "=")

\* A faulty variant of Padding: the missing padding is not added back.
Padding_none(data) == << >>

\* The padding _b64_decode adds back.
Padding(data) ==
  IF (Len(data) % 4) # 0 THEN [j \in 1..(4 - (Len(data) % 4)) |-> "="] ELSE << >>

\* _b64_decode: base64.b64decode(data + padding, './').  ok is FALSE where
\* b64decode raises TypeError.
_b64_decode(data) ==
  A2bBase64(Translate(data \o Padding(data), AltChars, << "+", "/" >>))

(***************************************************************************)
(* The module's constants.                                                 *)
(***************************************************************************)
\* BCRYPT_VERSION = ('2', 'a'): major, minor.
BCRYPT_VERSION == << "2", "a" >>

\* Expected raw salt length in bytes.
BCRYPT_SALTLEN == 16

\* Salt contains log2(rounds).
BCRYPT_MINROUNDS == 16

(***************************************************************************)
(* hashpw, lines 59-78: the salt string is taken apart and validated.      *)
(***************************************************************************)
\* (major, minor) > BCRYPT_VERSION: tuples compare item by item, characters
\* by their code.
VersionNewer(major, minor) ==
  \/ Ord(major) > Ord(BCRYPT_VERSION[1])
  \/ Ord(major) = Ord(BCRYPT_VERSION[1]) /\ Ord(minor) > Ord(BCRYPT_VERSION[2])

\* n > 31 or n < 0
RoundsOutOfBounds(n) == n > 31 \/ n < 0

\* rounds = 1 << n; rounds < BCRYPT_MINROUNDS.  Reached with n in 0..31
\* only.  1 << 31 is beyond the integers of TLC, and is not below the
\* minimum.
BelowMinRounds(n) == IF n >= 31 THEN FALSE ELSE 2 ^ n < BCRYPT_MINROUNDS

\* len(b64salt) * 3 / 4 != BCRYPT_SALTLEN, "/" the integer division of
\* Python 2.
SaltLengthInvalid(b64salt) == (Len(b64salt) * 3) \div 4 # BCRYPT_SALTLEN

Raise(msg) == [err |-> msg, n |-> 0, raw_salt |-> << >>]

\* Lines 59-78.  err is "" when every check passes, and otherwise says what
\* was raised: the message of the module's own ValueError, or the error of
\* the failing Python operation.
ParseSalt(s) ==
  LET parts == Split(s, "$") IN
  IF Len(parts) # 4 THEN Raise("ValueError: unpack salt.split('$')")
  ELSE
    LET hash_ver   == parts[2]
        log_rounds == parts[3]
        b64salt    == parts[4]
    IN
    IF Len(hash_ver) # 2 THEN Raise("ValueError: unpack tuple(hash_ver)")
    ELSE IF VersionNewer(hash_ver[1], hash_ver[2])
      THEN Raise("Newer hash version than library version. OMG.")
    ELSE IF ~PyInt(log_rounds).ok
      THEN Raise("ValueError: invalid literal for int()")
    ELSE IF RoundsOutOfBounds(PyInt(log_rounds).val)
      THEN Raise("Number of rounds out of bounds.")
    ELSE IF BelowMinRounds(PyInt(log_rounds).val)
      THEN Raise("Minimum number of rounds is: 16")
    ELSE IF SaltLengthInvalid(b64salt)
      THEN Raise("Salt has invalid length.")
    ELSE IF ~_b64_decode(b64salt).ok
      THEN Raise("TypeError: Incorrect padding")
    ELSE [err |-> "", n |-> PyInt(log_rounds).val,
          raw_salt |-> _b64_decode(b64salt).val]

(***************************************************************************)
(* _encode_salt and gensalt.                                               *)
(***************************************************************************)
\* _encode_salt(csalt, log_rounds), lines 170-180.
_encode_salt(csalt, log_rounds) ==
  IF Len(csalt) # BCRYPT_SALTLEN
    THEN [err |-> "Invalid salt length", val |-> << >>]
  ELSE IF log_rounds < 4 \/ log_rounds > 31
    THEN [err |-> "Invalid number of rounds", val |-> << >>]
  ELSE [err |-> "",
        val |-> << "$", BCRYPT_VERSION[1], BCRYPT_VERSION[2], "$" >>
                \o Format02d(log_rounds) \o << "$" >> \o _b64_encode(csalt)]

Min(a, b) == IF a < b THEN a ELSE b

Max(a, b) == IF a > b THEN a ELSE b

\* A faulty variant of gensalt: log_rounds is passed on as given.
gensalt_unclamped(log_rounds, urandom) == _encode_salt(urandom, log_rounds)

\* gensalt(log_rounds), line 44, with urandom the 16 bytes os.urandom gave.
gensalt(log_rounds, urandom) ==
  _encode_salt(urandom, Min(Max(log_rounds, 4), 31))

(***************************************************************************)
(* The inputs the operations are called with.                              *)
(***************************************************************************)
ByteSamples == {0, 105, 251, 255}

RECURSIVE SeqsUpTo(_, _)
SeqsUpTo(S, len) ==
  IF len = 0 THEN { << >> }
  ELSE LET shorter == SeqsUpTo(S, len - 1)
       IN shorter \cup { Append(q, x) : q \in { r \in shorter : Len(r) = len - 1 },
                                        x \in S }

\* Every byte sequence over ByteSamples up to MaxDataLen, one byte for each
\* value of the leading six bits, and two sequences of each length up to
\* MaxLongLen.
DataInputs ==
  SeqsUpTo(ByteSamples, MaxDataLen)
    \cup { << 4 * v >> : v \in 0..63 }
    \cup { [j \in 1..len |-> (j * 37 + 11) % 256] : len \in 0..MaxLongLen }
    \cup { [j \in 1..len |-> 255] : len \in 0..MaxLongLen }

\* Texts _b64_decode is called with directly.
TextInputs ==
  { << >>, << "A" >>, << ".", "." >>, << "/", "/", "/" >>,
    << "A", "B", "C", "D" >>, << "A", "B", "C", "D", "E" >>,
    << "A", "!", "B" >>, << "+", "/", "8" >>, << "A", "=", "B", "C" >> }

Passwords == { << >>, << "p", "w" >> }

\* What os.urandom(16) may return.
RandomSalts ==
  { [j \in 1..16 |-> 0], [j \in 1..16 |-> (j * 37 + 11) % 256] }

VersionInputs ==
  { << "2", "a" >>, << "2" >>, << "3", "a" >>, << "2", "b" >>, << "1", "z" >>,
    << "2", "A" >>, << >>, << "2", "a", "a" >> }

CostInputs ==
  { << "0", "4" >>, << "3", "1" >>, << "0", "3" >>, << "3", "2" >>,
    << "1", "2" >>, << "0", "5" >>, << "4" >>, << "0", "1", "2" >>,
    << "+", "5" >>, << " ", "5" >>, << "-", "1" >>, << "0", "0" >>,
    << "x", "4" >>, << >>, << "+", " ", "5" >>, << "-", " ", "5" >>,
    << "\t", "5" >>, << "5", "\n" >>, << "+", " ", "1", "2" >>,
    << "+" >>, << "5", " ", "x" >>, << "+", "-", "5" >> }

\* A salt segment of each length 0..MaxSaltChars: the leading characters of
\* one encoded text; the all-'.' segment of 22 characters; and segments of
\* 22 characters that hold characters outside the alphabet.
SegmentSource ==
  _b64_encode([j \in 1..(MaxSaltChars + 8) |-> (j * 37 + 11) % 256])

SegmentInputs ==
  { SubSeq(SegmentSource, 1, len) : len \in 0..MaxSaltChars }
    \cup { [j \in 1..22 |-> "."],
           << "!" >> \o SubSeq(SegmentSource, 1, 21),
           << "!", "!" >> \o SubSeq(SegmentSource, 1, 20),
           [j \in 1..22 |-> "="] }

MkSalt(ver, cost, seg) ==
  << "$" >> \o ver \o << "$" >> \o cost \o << "$" >> \o seg

\* Strings of the interchange format of a hash, a salt record of 29
\* characters and 31 encoded characters more: '$2a$12$N9qo8uLOickgx2ZMRZoMyeIjZAgcfl7p92ld
\* Gxad68LJZdL17lhWy', and one with cost 04 and the all-'.' salt.
HashInputs ==
  { MkSalt(<< "2", "a" >>, << "1", "2" >>,
           << "N", "9", "q", "o", "8", "u", "L", "O", "i", "c", "k", "g", "x",
              "2", "Z", "M", "R", "Z", "o", "M", "y", "e", "I", "j", "Z", "A",
              "g", "c", "f", "l", "7", "p", "9", "2", "l", "d", "G", "x", "a",
              "d", "6", "8", "L", "J", "Z", "d", "L", "1", "7", "l", "h", "W",
              "y" >>),
    MkSalt(<< "2", "a" >>, << "0", "4" >>,
           [j \in 1..22 |-> "."] \o SubSeq(SegmentSource, 1, 31)) }

\* Salt strings: every combination of the fields above, two strings with the
\* wrong number of '$', and the hash strings.
SaltInputs ==
  { MkSalt(v, c, g) : v \in VersionInputs, c \in CostInputs, g \in SegmentInputs }
    \cup { << "2", "a", "$", "0", "4", "$" >> \o [j \in 1..22 |-> "."],
           MkSalt(<< "2", "a" >>, << "0", "4" >>, << "a", "$", "b" >>) }
    \cup HashInputs

(***************************************************************************)
(* The state.                                                              *)
(***************************************************************************)
VARIABLES
  pc,          \* Spec: "unloaded", "import_failed".  FunctionSpec: "drawn"
               \* (the arguments are chosen, the function is not applied
               \* yet), then how the call ended: "returned", "raised"
  op,          \* the function applied: "none", "hashpw", "gensalt",
               \* "_b64_encode", "_b64_decode"
  origin,      \* where the argument came from: "fresh", "generated" (the
               \* salt gensalt returned), "roundtrip" (the text _b64_encode
               \* returned)
  password,    \* hashpw's argument
  salt,        \* hashpw's argument
  arg_rounds,  \* gensalt's argument log_rounds
  urandom,     \* gensalt: what os.urandom(16) returns
  data,        \* _b64_encode's argument
  text,        \* _b64_decode's argument
  n,           \* hashpw: n, with rounds = 1 << n
  raw_salt,    \* hashpw: raw_salt
  result,      \* the str returned
  decoded,     \* the bytes _b64_decode returned
  err          \* what was raised, "" when nothing was

vars ==
  << pc, op, origin, password, salt, arg_rounds, urandom, data, text, n,
     raw_salt, result, decoded, err >>

\* No call made: every argument and result empty.
NoCall ==
  /\ op = "none"
  /\ origin = "fresh"
  /\ password = << >>
  /\ salt = << >>
  /\ arg_rounds = 0
  /\ urandom = << >>
  /\ data = << >>
  /\ text = << >>
  /\ n = 0
  /\ raw_salt = << >>
  /\ result = << >>
  /\ decoded = << >>
  /\ err = ""

(***************************************************************************)
(* The module as a program: its load, lines 24-34.                         *)
(***************************************************************************)
\* Line 27 where lib.eksblowfish is absent.
ImportErrorLine27 == "ImportError: No module named lib.eksblowfish"

\* Line 33: BCRYPT_MAGICTEXT * 8 is a str, and a str is not divided.
TypeErrorLine33 ==
  "TypeError: unsupported operand type(s) for /: 'str' and 'int'"

\* The module before its first statement is executed.
Init ==
  /\ pc = "unloaded"
  /\ NoCall

\* import of the module: the statements in order, ended by the first that
\* raises.  Line 27 raises where lib.eksblowfish is absent; line 33 raises
\* where it is present.  Line 34 and the def statements are not reached,
\* and there is no module whose functions could be called.
import_module ==
  /\ pc = "unloaded"
  /\ pc' = "import_failed"
  /\ \E lib \in BOOLEAN :
       err' = IF lib THEN TypeErrorLine33 ELSE ImportErrorLine27
  /\ UNCHANGED << op, origin, password, salt, arg_rounds, urandom, data, text,
                  n, raw_salt, result, decoded >>

Next == import_module

Spec == Init /\ [][Next]_vars

(***************************************************************************)
(* The functions, each applied to arguments drawn from the input sets.     *)
(***************************************************************************)
\* One function and its arguments are chosen; nothing is computed yet.
FunctionInit ==
  /\ pc = "drawn"
  /\ origin = "fresh"
  /\ n = 0
  /\ raw_salt = << >>
  /\ result = << >>
  /\ decoded = << >>
  /\ err = ""
  /\ \/ /\ op = "hashpw"
        /\ password \in Passwords
        /\ salt \in SaltInputs
        /\ arg_rounds = 0 /\ urandom = << >> /\ data = << >> /\ text = << >>
     \/ /\ op = "gensalt"
        /\ arg_rounds \in (0 - LogArgSpan)..(31 + LogArgSpan)
        /\ urandom \in RandomSalts
        /\ password = << >> /\ salt = << >> /\ data = << >> /\ text = << >>
     \/ /\ op = "_b64_encode"
        /\ data \in DataInputs
        /\ password = << >> /\ salt = << >> /\ arg_rounds = 0
        /\ urandom = << >> /\ text = << >>
     \/ /\ op = "_b64_decode"
        /\ text \in TextInputs
        /\ password = << >> /\ salt = << >> /\ arg_rounds = 0
        /\ urandom = << >> /\ data = << >>

\* Line 82, bf = EksBlowfish(): no statement of the module assigns the name.
NameErrorLine82 == "NameError: global name 'EksBlowfish' is not defined"

\* hashpw(p, s), lines 59-82.  A check of lines 59-78 raises; or they all
\* pass, n and raw_salt are set, and line 82 raises NameError.  Nothing is
\* returned for any argument.
hashpw(p, s) ==
  LET parsed == ParseSalt(s) IN
  /\ n' = parsed.n
  /\ raw_salt' = parsed.raw_salt
  /\ err' = IF parsed.err = "" THEN NameErrorLine82 ELSE parsed.err
  /\ pc' = "raised"
  /\ result' = << >>
  /\ decoded' = << >>

\* hashpw applied to the password and salt string drawn.
hashpw_call ==
  /\ pc = "drawn"
  /\ op = "hashpw"
  /\ hashpw(password, salt)
  /\ UNCHANGED << op, origin, password, salt, arg_rounds, urandom, data, text >>

\* hashpw applied to the salt gensalt returned.
hashpw_generated ==
  /\ pc = "returned"
  /\ op = "gensalt"
  /\ \E p \in Passwords :
       /\ password' = p
       /\ salt' = result
       /\ hashpw(p, result)
  /\ op' = "hashpw"
  /\ origin' = "generated"
  /\ UNCHANGED << arg_rounds, urandom, data, text >>

\* gensalt applied to the log_rounds drawn.
gensalt_call ==
  /\ pc = "drawn"
  /\ op = "gensalt"
  /\ LET r == gensalt(arg_rounds, urandom) IN
       /\ result' = r.val
       /\ err' = r.err
       /\ pc' = IF r.err = "" THEN "returned" ELSE "raised"
  /\ UNCHANGED << op, origin, password, salt, arg_rounds, urandom, data, text,
                  n, raw_salt, decoded >>

\* _b64_encode applied to the data drawn.
b64_encode_call ==
  /\ pc = "drawn"
  /\ op = "_b64_encode"
  /\ result' = _b64_encode(data)
  /\ err' = ""
  /\ pc' = "returned"
  /\ UNCHANGED << op, origin, password, salt, arg_rounds, urandom, data, text,
                  n, raw_salt, decoded >>

\* _b64_decode(t) returns, or raises b64decode's TypeError.
b64_decode(t) ==
  LET r == _b64_decode(t) IN
  /\ decoded' = IF r.ok THEN r.val ELSE << >>
  /\ err' = IF r.ok THEN "" ELSE "TypeError: Incorrect padding"
  /\ pc' = IF r.ok THEN "returned" ELSE "raised"

\* _b64_decode applied to the text drawn.
b64_decode_call ==
  /\ pc = "drawn"
  /\ op = "_b64_decode"
  /\ b64_decode(text)
  /\ UNCHANGED << op, origin, password, salt, arg_rounds, urandom, data, text,
                  n, raw_salt, result >>

\* _b64_decode applied to the text _b64_encode returned.
b64_decode_roundtrip ==
  /\ pc = "returned"
  /\ op = "_b64_encode"
  /\ text' = result
  /\ b64_decode(result)
  /\ op' = "_b64_decode"
  /\ origin' = "roundtrip"
  /\ UNCHANGED << password, salt, arg_rounds, urandom, data, n, raw_salt,
                  result >>

FunctionNext ==
  \/ hashpw_call
  \/ hashpw_generated
  \/ gensalt_call
  \/ b64_encode_call
  \/ b64_decode_call
  \/ b64_decode_roundtrip

FunctionSpec == FunctionInit /\ [][FunctionNext]_vars

(***************************************************************************)
(* Properties.                                                             *)
(***************************************************************************)
\* The function drawn has been applied.
Applied == pc \in { "returned", "raised" }

\* The fields of hashpw's salt argument, where it has the four pieces.
SaltParts == Split(salt, "$")

HasFourParts == Len(SaltParts) = 4

VersionField == SaltParts[2]

CostField == SaltParts[3]

SaltField == SaltParts[4]

\* The version field is of two characters, at or below '2', 'a'.
VersionPasses ==
  /\ Len(VersionField) = 2
  /\ ~(\/ Ord(VersionField[1]) > Ord("2")
       \/ VersionField[1] = "2" /\ Ord(VersionField[2]) > Ord("a"))

\* The cost field reads as an integer in 4..31.
CostPasses == PyInt(CostField).ok /\ PyInt(CostField).val \in 4..31

\* The cost field is exactly two decimal digits.
CostIsTwoDigits ==
  Len(CostField) = 2 /\ IsDigit(CostField[1]) /\ IsDigit(CostField[2])

\* bcrypt's own alphabet, value 0 first.
BcryptAlphabet ==
  << ".", "/", "A", "B", "C", "D", "E", "F", "G", "H", "I", "J", "K", "L",
     "M", "N", "O", "P", "Q", "R", "S", "T", "U", "V", "W", "X", "Y", "Z",
     "a", "b", "c", "d", "e", "f", "g", "h", "i", "j", "k", "l", "m", "n",
     "o", "p", "q", "r", "s", "t", "u", "v", "w", "x", "y", "z", "0", "1",
     "2", "3", "4", "5", "6", "7", "8", "9" >>

InBcryptAlphabet(c) == \E j \in 1..64 : BcryptAlphabet[j] = c

\* The salt segment is encoded text: characters of the alphabet only.
SaltFieldEncoded == \A j \in 1..Len(SaltField) : InBcryptAlphabet(SaltField[j])

\* C2: hashpw raises, and returns no hash string, on every salt string
\* whose cost field parses to an integer outside 4..31; and it accepts
\* every cost in 4..31: with a version at or below '2a' and the
\* 22-character encoding of a 16-byte salt, the call raises nothing and
\* returns a hash string.
C2_CostOutside4To31Rejected ==
  (op = "hashpw" /\ Applied /\ HasFourParts /\ PyInt(CostField).ok) =>
    /\ PyInt(CostField).val \notin 4..31 =>
         (pc = "raised" /\ result = << >>)
    /\ (/\ PyInt(CostField).val \in 4..31
        /\ VersionPasses
        /\ Len(SaltField) = 22
        /\ SaltFieldEncoded) =>
         (pc = "returned" /\ err = "" /\ Len(result) > 0)

\* C3: with the version and the cost passing, hashpw passes its salt-length
\* check if and only if the salt segment decodes to exactly 16 raw bytes;
\* segments of 20 characters (15 bytes) and of 23 characters (17 bytes) are
\* refused by it.
C3_SaltLengthCheck ==
  (op = "hashpw" /\ Applied /\ HasFourParts /\ VersionPasses /\ CostPasses) =>
    /\ err # "Salt has invalid length." <=>
         (_b64_decode(SaltField).ok /\ Len(_b64_decode(SaltField).val) = 16)
    /\ Len(SaltField) \in {20, 23} => err = "Salt has invalid length."

\* C4: for a version segment of one or two characters, hashpw raises the
\* newer-version error exactly when the version exceeds ('2', 'a'), and a
\* version at or below it, the one-character '2' included, passes the
\* version check without any error.
C4_VersionCheck ==
  (op = "hashpw" /\ Applied /\ HasFourParts /\ Len(VersionField) \in {1, 2}) =>
    LET exceeds ==
          \/ Ord(VersionField[1]) > Ord("2")
          \/ /\ VersionField[1] = "2"
             /\ Len(VersionField) = 2
             /\ Ord(VersionField[2]) > Ord("a")
    IN /\ err = "Newer hash version than library version. OMG." <=> exceeds
       /\ ~exceeds => err # "ValueError: unpack tuple(hash_ver)"

\* C6: hashpw refuses, in its checks of the salt string (lines 59-78),
\* every salt string whose cost segment is not exactly two decimal digits:
\* no such string comes through the checks to line 82.
C6_CostFieldTwoDigits ==
  (op = "hashpw" /\ Applied /\ HasFourParts /\ ~CostIsTwoDigits)
    => (pc = "raised" /\ err # NameErrorLine82)

\* C7: gensalt(log_rounds) raises nothing for any integer and returns
\* '$2a$NN$' and 22 encoded characters, NN the two digits of
\* min(max(log_rounds, 4), 31).
C7_GensaltClamps ==
  (op = "gensalt" /\ Applied) =>
    LET cost == IF arg_rounds < 4 THEN 4
                ELSE IF arg_rounds > 31 THEN 31 ELSE arg_rounds
    IN /\ pc = "returned"
       /\ err = ""
       /\ Len(result) = 29
       /\ SubSeq(result, 1, 4) = << "$", "2", "a", "$" >>
       /\ result[5] = Digits[(cost \div 10) + 1]
       /\ result[6] = Digits[(cost % 10) + 1]
       /\ result[7] = "$"
       /\ \A j \in 8..29 : InBcryptAlphabet(result[j])

\* C7's case: a negative log_rounds gives the cost field '04'.
C7_Witness ==
  /\ op = "gensalt"
  /\ arg_rounds < 0
  /\ pc = "returned"
  /\ err = ""
  /\ SubSeq(result, 5, 6) = << "0", "4" >>

\* C8: _b64_encode writes the six-bit value v as the v-th character of
\* './', 'A'-'Z', 'a'-'z', '0'-'9' (0 as '.', 1 as '/', 2 as 'A', ...,
\* 63 as '9'), and _b64_decode takes each character back to its value.
C8_BcryptAlphabetOrder ==
  /\ (op = "_b64_encode" /\ pc = "returned" /\ Len(data) >= 1) =>
       result[1] = BcryptAlphabet[(data[1] \div 4) + 1]
  /\ (/\ op = "_b64_decode"
      /\ pc = "returned"
      /\ Len(text) >= 2
      /\ InBcryptAlphabet(text[1])) =>
       text[1] = BcryptAlphabet[(decoded[1] \div 4) + 1]

\* C9: _b64_decode(_b64_encode(bytes)) is bytes again, and the encoded text
\* holds no '=': the padding _b64_decode adds back restores the last,
\* partial group.
C9_CodecRoundTrip ==
  /\ (op = "_b64_encode" /\ pc = "returned") =>
       \A j \in 1..Len(result) : result[j] # "="
  /\ (op = "_b64_decode" /\ origin = "roundtrip") =>
       /\ pc = "returned"
       /\ \A j \in 1..Len(text) : text[j] # "="
       /\ decoded = data

\* C9's case: two bytes, encoded as three characters with no padding, come
\* back.
C9_Witness ==
  /\ op = "_b64_decode"
  /\ origin = "roundtrip"
  /\ Len(data) = 2
  /\ Len(text) = 3
  /\ pc = "returned"
  /\ decoded = data

====
